---- MODULE Spec2Model ----
(***************************************************************************)
(* Model of the answer-scoring engine of open-factual-bench                *)
(* (src/bench/scoring.py) and of the loops that call it.                   *)
(*                                                                         *)
(* A Python str is modelled as a sequence of characters; a character is a  *)
(* one-character TLA+ string, except for the characters that cannot be     *)
(* written in a TLA+ string, which are named (SuperscriptTwo, DotlessI,    *)
(* Backtick).                                                              *)
(***************************************************************************)
EXTENDS Integers, Sequences, FiniteSets, TLC

VARIABLES
    pc,                \* position of the running program
    text,              \* argument / current value of the string function applied
    prev,              \* value of text before the last application
    calls,             \* number of applications so far
    prediction,        \* the pred handed to score_task / _numeric_match
    reference,         \* task.reference_answer
    verdict,           \* score_task's return value: "True", "False", "None"
    matched,           \* _numeric_match's return value: "True", "False"
    offline,           \* run_benchmark: args.offline
    task_type,         \* run_benchmark: metadata type of the task in hand
    h_label,           \* run_benchmark: hallucination label of the task in hand
    results,           \* run.results: is_correct and metadata of each TaskResult
    processed,         \* run_benchmark: len(run.results)
    correct,           \* run_benchmark: the tallies of the evaluation loop
    graded,
    skipped,
    hallucinated,
    refused,
    unclear_h,
    file,              \* recompute: the result file on disk: results and summary
    corrected,         \* recompute: the count returned by the last run
    written            \* recompute: whether the last run wrote the file

vars == <<pc, text, prev, calls, prediction, reference, verdict, matched,
          offline, task_type, h_label, results, processed, correct, graded, skipped,
          hallucinated, refused, unclear_h, file, corrected, written>>

harnessVars == <<text, prev, calls>>
callVars    == <<prediction, reference, verdict, matched>>
fileVars    == <<file, corrected, written>>
loopVars    == <<offline, task_type, h_label, results, processed, correct, graded, skipped,
                 hallucinated, refused, unclear_h>>

(***************************************************************************)
(* Characters                                                              *)
(***************************************************************************)
SuperscriptTwo == "sup2"         \* U+00B2, NFKD -> "2"
DotlessI       == "dotless-i"    \* U+0131, no decomposition, already lower case
Backtick       == "backtick"     \* U+0060

LowerLetters ==
    << "a","b","c","d","e","f","g","h","i","j","k","l","m",
       "n","o","p","q","r","s","t","u","v","w","x","y","z" >>
UpperLetters ==
    << "A","B","C","D","E","F","G","H","I","J","K","L","M",
       "N","O","P","Q","R","S","T","U","V","W","X","Y","Z" >>
Digits == {"0","1","2","3","4","5","6","7","8","9"}

Range(f) == { f[i] : i \in DOMAIN f }
LowerSet == Range(LowerLetters)
UpperSet == Range(UpperLetters)
LowerOf  == [c \in UpperSet |-> LowerLetters[CHOOSE i \in 1..26 : UpperLetters[i] = c]]

\* str.strip() with no argument and the regex class \s
IsSpace(c) == c \in {" ", "\n", "\t"}

\* unicodedata.normalize("NFKD", c) for one character
Nfkd(c) == IF c = SuperscriptTwo THEN <<"2">> ELSE <<c>>

\* str.lower() for one character
Lower(c) == IF c \in UpperSet THEN LowerOf[c] ELSE c

(***************************************************************************)
(* String primitives used by scoring.py                                    *)
(***************************************************************************)
\* the concatenation of the strings ss[lo..hi]
RECURSIVE Join(_, _, _)
Join(ss, lo, hi) ==
    IF lo > hi THEN <<>>
    ELSE IF lo = hi THEN ss[lo]
    ELSE Join(ss, lo, (lo + hi) \div 2) \o Join(ss, (lo + hi) \div 2 + 1, hi)

NfkdStr(s) == Join([i \in 1..Len(s) |-> Nfkd(s[i])], 1, Len(s))

LowerStr(s) == [i \in 1..Len(s) |-> Lower(s[i])]

\* s.lstrip(cs): drop the leading characters that are in cs
LStripChars(s, cs) ==
    IF \A i \in 1..Len(s) : s[i] \in cs THEN <<>>
    ELSE SubSeq(s, CHOOSE i \in 1..Len(s) :
                      s[i] \notin cs /\ \A j \in 1..(i - 1) : s[j] \in cs,
                Len(s))

\* s.rstrip(cs): drop the trailing characters that are in cs
RStripChars(s, cs) ==
    IF \A i \in 1..Len(s) : s[i] \in cs THEN <<>>
    ELSE SubSeq(s, 1, CHOOSE i \in 1..Len(s) :
                         s[i] \notin cs /\ \A j \in (i + 1)..Len(s) : s[j] \in cs)

Whitespace == {" ", "\n", "\t"}
LStrip(s) == LStripChars(s, Whitespace)
Strip(s) == RStripChars(LStrip(s), Whitespace)

\* re.sub(r"\s+", " ", s): every maximal run of whitespace becomes one space
CollapseWhitespace(s) ==
    LET kept == SelectSeq([i \in 1..Len(s) |-> i],
                          LAMBDA i : ~IsSpace(s[i]) \/ i = 1 \/ ~IsSpace(s[i - 1]))
    IN  [j \in 1..Len(kept) |-> IF IsSpace(s[kept[j]]) THEN " " ELSE s[kept[j]]]

\* s.replace(c, "")
RemoveChar(s, c) == SelectSeq(s, LAMBDA x : x # c)

StartsWith(s, w) == Len(s) >= Len(w) /\ SubSeq(s, 1, Len(w)) = w

Articles == << <<"t","h","e">>, <<"a">>, <<"a","n">> >>
TrailingPunct == {".", ",", ";", ":", "!", "?"}

\* does ^w\s+ match s
ArticleMatches(s, w) ==
    StartsWith(s, w) /\ Len(s) > Len(w) /\ IsSpace(s[Len(w) + 1])

\* re.sub(r"^(the|a|an)\s+", "", s): first alternative that matches, in order
StripArticle(s) ==
    IF \E k \in 1..Len(Articles) : ArticleMatches(s, Articles[k])
    THEN LET k == CHOOSE j \in 1..Len(Articles) :
                      /\ ArticleMatches(s, Articles[j])
                      /\ \A i \in 1..(j - 1) : ~ArticleMatches(s, Articles[i])
         IN  LStrip(SubSeq(s, Len(Articles[k]) + 1, Len(s)))
    ELSE s

\* text.replace(<backtick>, "").rstrip(".,;:!?")
RemoveNoise(s) == RStripChars(RemoveChar(s, Backtick), TrailingPunct)

_normalize(s) ==
    Strip(StripArticle(RemoveNoise(CollapseWhitespace(Strip(LowerStr(NfkdStr(s)))))))

(***************************************************************************)
(* Number-word normalization                                               *)
(***************************************************************************)
\* the dict _NUMBER_WORDS in insertion order, which is also the order of the
\* alternatives of _NUMBER_WORDS_RE: << word, digit string >>
_NUMBER_WORDS ==
    <<
       <<<<"z","e","r","o">>, <<"0">>>>,
       <<<<"o","n","e">>, <<"1">>>>,
       <<<<"t","w","o">>, <<"2">>>>,
       <<<<"t","h","r","e","e">>, <<"3">>>>,
       <<<<"f","o","u","r">>, <<"4">>>>,
       <<<<"f","i","v","e">>, <<"5">>>>,
       <<<<"s","i","x">>, <<"6">>>>,
       <<<<"s","e","v","e","n">>, <<"7">>>>,
       <<<<"e","i","g","h","t">>, <<"8">>>>,
       <<<<"n","i","n","e">>, <<"9">>>>,
       <<<<"t","e","n">>, <<"1","0">>>>,
       <<<<"e","l","e","v","e","n">>, <<"1","1">>>>,
       <<<<"t","w","e","l","v","e">>, <<"1","2">>>>,
       <<<<"t","h","i","r","t","e","e","n">>, <<"1","3">>>>,
       <<<<"f","o","u","r","t","e","e","n">>, <<"1","4">>>>,
       <<<<"f","i","f","t","e","e","n">>, <<"1","5">>>>,
       <<<<"s","i","x","t","e","e","n">>, <<"1","6">>>>,
       <<<<"s","e","v","e","n","t","e","e","n">>, <<"1","7">>>>,
       <<<<"e","i","g","h","t","e","e","n">>, <<"1","8">>>>,
       <<<<"n","i","n","e","t","e","e","n">>, <<"1","9">>>>,
       <<<<"t","w","e","n","t","y">>, <<"2","0">>>>,
       <<<<"h","u","n","d","r","e","d">>, <<"1","0","0">>>>,
       <<<<"t","h","o","u","s","a","n","d">>, <<"1","0","0","0">>>>
    >>

\* the regex class \w
WordChars == LowerSet \cup UpperSet \cup Digits \cup {"_", DotlessI, SuperscriptTwo}
IsWordChar(c) == c \in WordChars

\* the regex assertion \b between s[i-1] and s[i]
WordBoundary(s, i) ==
    LET before == i > 1 /\ i - 1 <= Len(s) /\ IsWordChar(s[i - 1])
        after  == i >= 1 /\ i <= Len(s) /\ IsWordChar(s[i])
    IN  before # after

\* a lower-case pattern letter against a text character under re.IGNORECASE:
\* besides the two cases of the letter, "i" also matches U+0131
MatchesIgnoreCase(p, c) == Lower(c) = p \/ (p = "i" /\ c = DotlessI)

\* the literal w of the pattern matches s at position i
WordMatchesAt(s, i, w) ==
    /\ i + Len(w) - 1 <= Len(s)
    /\ \A j \in 1..Len(w) : MatchesIgnoreCase(w[j], s[i + j - 1])

\* \b(w)\b matches s at position i
NumberWordMatchesAt(s, i, k) ==
    LET w == _NUMBER_WORDS[k][1]
    IN  /\ WordBoundary(s, i)
        /\ WordMatchesAt(s, i, w)
        /\ WordBoundary(s, i + Len(w))

\* index of the first alternative of _NUMBER_WORDS_RE that matches at i, or 0
NumberWordAt(s, i) ==
    IF WordBoundary(s, i) /\ \E k \in 1..Len(_NUMBER_WORDS) : NumberWordMatchesAt(s, i, k)
    THEN CHOOSE k \in 1..Len(_NUMBER_WORDS) :
            /\ NumberWordMatchesAt(s, i, k)
            /\ \A j \in 1..(k - 1) : ~NumberWordMatchesAt(s, i, j)
    ELSE 0

\* _NUMBER_WORDS[key]; KeyError stands for the exception of a missing key
KeyError == << "KeyError" >>
Lookup(key) ==
    IF \E k \in 1..Len(_NUMBER_WORDS) : _NUMBER_WORDS[k][1] = key
    THEN _NUMBER_WORDS[CHOOSE k \in 1..Len(_NUMBER_WORDS) : _NUMBER_WORDS[k][1] = key][2]
    ELSE KeyError

\* the lambda of _normalize_numbers raises KeyError on some match of s
NormalizeNumbersRaises(s) ==
    \E i \in 1..Len(s) :
        LET k == NumberWordAt(s, i)
        IN  /\ k # 0
            /\ Lookup(LowerStr(SubSeq(s, i, i + Len(_NUMBER_WORDS[k][1]) - 1))) = KeyError

\* position of the leftmost match of _NUMBER_WORDS_RE at or after i, or 0
NextNumberWord(s, i) ==
    IF \E j \in i..Len(s) : NumberWordAt(s, j) # 0
    THEN CHOOSE j \in i..Len(s) :
            /\ NumberWordAt(s, j) # 0
            /\ \A h \in i..(j - 1) : NumberWordAt(s, h) = 0
    ELSE 0

\* _NUMBER_WORDS_RE.sub(lambda m: _NUMBER_WORDS[m.group().lower()], s) from
\* position i on: matches are replaced left to right, the rest is copied
RECURSIVE SubNumberWords(_, _)
SubNumberWords(s, i) ==
    LET j == NextNumberWord(s, i)
    IN  IF j = 0 THEN SubSeq(s, i, Len(s))
        ELSE LET n == Len(_NUMBER_WORDS[NumberWordAt(s, j)][1])
             IN  SubSeq(s, i, j - 1)
                     \o Lookup(LowerStr(SubSeq(s, j, j + n - 1)))
                     \o SubNumberWords(s, j + n)

\* the value returned by _normalize_numbers(s) when it does not raise
_normalize_numbers(s) == SubNumberWords(s, 1)

(***************************************************************************)
(* float(): parsing a str into an IEEE-754 double                          *)
(*                                                                         *)
(* A parsed number is kept as the decimal it was written as,               *)
(* [neg, ip, fd]: sign, integer part, fractional digits; the double it     *)
(* denotes is the correctly rounded value of that decimal.                 *)
(***************************************************************************)
DigitValue(c) == CHOOSE v \in 0..9 : <<"0","1","2","3","4","5","6","7","8","9">>[v + 1] = c

RECURSIVE ToNat(_)
ToNat(ds) ==
    IF ds = <<>> THEN 0
    ELSE 10 * ToNat(SubSeq(ds, 1, Len(ds) - 1)) + DigitValue(ds[Len(ds)])

RECURSIVE Pow(_, _)
Pow(b, n) == IF n = 0 THEN 1 ELSE b * Pow(b, n - 1)

Zeros(n) == [i \in 1..n |-> "0"]

\* position of the first occurrence of c in s, or 0
IndexOf(s, c) ==
    IF \E i \in 1..Len(s) : s[i] = c
    THEN CHOOSE i \in 1..Len(s) : s[i] = c /\ \A j \in 1..(i - 1) : s[j] # c
    ELSE 0

\* digit (["_"] digit)*
IsDigitPart(x) ==
    /\ x # <<>>
    /\ \A i \in 1..Len(x) : x[i] \in Digits \cup {"_"}
    /\ x[1] \in Digits /\ x[Len(x)] \in Digits
    /\ \A i \in 1..(Len(x) - 1) : ~(x[i] = "_" /\ x[i + 1] = "_")

HasSign(t) == t # <<>> /\ t[1] \in {"+", "-"}

NotANumber == [kind |-> "ValueError"]

\* the decimal mantissa m (digits with at most one point) times 10^e
Decimal(neg, m, e) ==
    LET dot  == IndexOf(m, ".")
        ipt  == IF dot = 0 THEN m ELSE SubSeq(m, 1, dot - 1)
        fpt  == IF dot = 0 THEN <<>> ELSE SubSeq(m, dot + 1, Len(m))
        okM  == /\ ipt = <<>> \/ IsDigitPart(ipt)
                /\ fpt = <<>> \/ IsDigitPart(fpt)
                /\ ipt # <<>> \/ fpt # <<>>
        idg  == RemoveChar(ipt, "_")
        fdg  == RemoveChar(fpt, "_")
        \* move the point e places to the right (left when e < 0)
        idg2 == IF e >= 0
                THEN idg \o SubSeq(fdg \o Zeros(e), 1, e)
                ELSE SubSeq(idg, 1, Len(idg) + e)
        fdg2 == IF e >= 0
                THEN SubSeq(fdg, e + 1, Len(fdg))
                ELSE SubSeq(Zeros(-e) \o idg, Len(Zeros(-e) \o idg) + e + 1,
                            Len(Zeros(-e) \o idg)) \o fdg
    IN  IF okM
        THEN [kind |-> "finite", neg |-> neg, ip |-> ToNat(idg2), fd |-> fdg2]
        ELSE NotANumber

\* float(s): surrounding whitespace, a sign, then inf / infinity / nan in any
\* case or a decimal literal with an optional exponent
ParseFloat(s) ==
    LET t    == Strip(s)
        neg  == HasSign(t) /\ t[1] = "-"
        body == LowerStr(IF HasSign(t) THEN Tail(t) ELSE t)
        ePos == IndexOf(body, "e")
        mant == IF ePos = 0 THEN body ELSE SubSeq(body, 1, ePos - 1)
        expo == IF ePos = 0 THEN <<>> ELSE SubSeq(body, ePos + 1, Len(body))
        eDig == IF HasSign(expo) THEN Tail(expo) ELSE expo
        eVal == IF ePos = 0 THEN 0
                ELSE (IF HasSign(expo) /\ expo[1] = "-" THEN -1 ELSE 1)
                         * ToNat(RemoveChar(eDig, "_"))
    IN  IF body \in { <<"i","n","f">>, <<"i","n","f","i","n","i","t","y">> }
        THEN [kind |-> "inf", neg |-> neg]
        ELSE IF body = <<"n","a","n">> THEN [kind |-> "nan"]
        ELSE IF ePos # 0 /\ ~IsDigitPart(eDig) THEN NotANumber
        ELSE Decimal(neg, mant, eVal)

(***************************************************************************)
(* abs(pred_f - ref_f) < epsilon in double arithmetic                      *)
(*                                                                         *)
(* With M = 10^S, S the number of fractional digits compared, the exact    *)
(* difference of the two decimals is a multiple of 1/M and the rounding    *)
(* error of a double is far below 1/M, so the comparison is decided by the *)
(* decimals unless their difference is exactly 1/100; then it is decided   *)
(* by the rounding errors of the two doubles and of the constant 0.01.     *)
(***************************************************************************)
Max(a, b) == IF a >= b THEN a ELSE b
Abs(a) == IF a >= 0 THEN a ELSE -a

\* the fractional digits of x as an integer in units of 10^-S
FracUnits(x, S) == ToNat(x.fd \o Zeros(S - Len(x.fd)))

RECURSIVE FloorLog2(_)
FloorLog2(n) == IF n < 2 THEN 0 ELSE 1 + FloorLog2(n \div 2)

\* least j with f * 2^j >= M, for 0 < f < M
RECURSIVE DoublingsToReach(_, _)
DoublingsToReach(f, M) == IF f >= M THEN 0 ELSE 1 + DoublingsToReach(2 * f, M)

\* (r * 2^k) mod m
RECURSIVE DoubleMod(_, _, _)
DoubleMod(r, k, m) ==
    IF k = 0 THEN r % m
    ELSE IF k >= 3 THEN DoubleMod((8 * r) % m, k - 3, m)
    ELSE DoubleMod((2 * r) % m, k - 1, m)

\* x * 2^j >= bound, without computing x * 2^j
RECURSIVE ScaledReaches(_, _, _)
ScaledReaches(x, j, bound) ==
    IF x >= bound THEN TRUE
    ELSE IF j = 0 THEN FALSE
    ELSE ScaledReaches(2 * x, j - 1, bound)

\* float() rounds |x| = ip + f/M to the nearest double, ties to even:
\* the result is [d, k] with  double(|x|) - |x| = d / (M * 2^k)
RoundingError(ip, f, M) ==
    IF ip = 0 /\ f = 0 THEN [d |-> 0, k |-> 0]
    ELSE LET e  == IF ip >= 1 THEN FloorLog2(ip) ELSE -DoublingsToReach(f, M)
             k  == 52 - e
             r2 == DoubleMod(((ip % 2) * M + f) % (2 * M), k, 2 * M)
             r  == r2 % M
             up == 2 * r > M \/ (2 * r = M /\ r2 >= M)
         IN  [d |-> IF up THEN M - r ELSE -r, k |-> k]

\* exact decimal arithmetic in place of doubles: a difference of exactly
\* 1/100 is never below 1/100
BoundaryBelowEpsilonExact(hi, lo, S) == FALSE

\* hi - lo = 1/100 exactly as decimals: the double difference, rounded, is
\* below the double 0.01 = 1/100 + 12/(100 * 2^59) iff
\*     err(hi) - err(lo) <= -38/(100 * 2^59)
BoundaryBelowEpsilon(hi, lo, S) ==
    LET M  == Pow(10, S)
        eh == RoundingError(hi.ip, FracUnits(hi, S), M)
        el == RoundingError(lo.ip, FracUnits(lo, S), M)
        dh == IF hi.neg THEN -eh.d ELSE eh.d
        dl == IF lo.neg THEN -el.d ELSE el.d
        \* a term without rounding error takes no part in the scaling
        kh == IF dh = 0 THEN 0 ELSE eh.k
        kl == IF dl = 0 THEN 0 ELSE el.k
        k0 == Max(kh, kl)
        L  == (IF dh = 0 THEN 0 ELSE dh * Pow(2, k0 - kh))
                  - (IF dl = 0 THEN 0 ELSE dl * Pow(2, k0 - kl))
        R  == 38 * (M \div 100)
    IN  /\ L < 0
        /\ IF k0 <= 59 THEN ScaledReaches(-L, 59 - k0, R)
           ELSE ~ScaledReaches(R, k0 - 59, 1 - L)

\* the exact difference a - b of two finite decimals in units of 10^-S,
\* capped at 3 units of the integer part
DecimalDifference(a, b, S) ==
    LET M  == Pow(10, S)
        sa == IF a.neg THEN -1 ELSE 1
        sb == IF b.neg THEN -1 ELSE 1
        D  == sa * a.ip - sb * b.ip
        F  == sa * FracUnits(a, S) - sb * FracUnits(b, S)
    IN  IF D >= 3 THEN 3 * M ELSE IF D <= -3 THEN -3 * M ELSE D * M + F

\* abs(a - b) < 0.01 for two parsed values
DifferenceBelowEpsilon(a, b) ==
    IF a.kind # "finite" \/ b.kind # "finite" THEN FALSE   \* inf and nan
    ELSE LET S == Max(Max(Len(a.fd), Len(b.fd)), 2)
             T == DecimalDifference(a, b, S)
             E == Pow(10, S) \div 100
         IN  IF Abs(T) < E THEN TRUE
             ELSE IF Abs(T) > E THEN FALSE
             ELSE IF T > 0 THEN BoundaryBelowEpsilon(a, b, S)
             ELSE BoundaryBelowEpsilon(b, a, S)

\* _numeric_match without the comma removal on pred
_numeric_match_keep_commas(pred, ref) ==
    LET pred_f == ParseFloat(pred)
        ref_f  == ParseFloat(RemoveChar(ref, ","))
    IN  IF pred_f.kind = "ValueError" \/ ref_f.kind = "ValueError"
        THEN FALSE
        ELSE DifferenceBelowEpsilon(pred_f, ref_f)

\* _numeric_match(pred, ref) with the default epsilon
_numeric_match(pred, ref) ==
    LET pred_f == ParseFloat(RemoveChar(pred, ","))
        ref_f  == ParseFloat(RemoveChar(ref, ","))
    IN  IF pred_f.kind = "ValueError" \/ ref_f.kind = "ValueError"
        THEN FALSE                                  \* except ValueError
        ELSE DifferenceBelowEpsilon(pred_f, ref_f)

(***************************************************************************)
(* score_task                                                              *)
(***************************************************************************)
\* hay.startswith(needle)
ContainsAtStart(hay, needle) ==
    Len(needle) <= Len(hay) /\ SubSeq(hay, 1, Len(needle)) = needle

\* needle in hay
Contains(hay, needle) ==
    \E i \in 0..(Len(hay) - Len(needle)) : SubSeq(hay, i + 1, i + Len(needle)) = needle

\* s.split("\n")[0]
FirstLine(s) ==
    IF IndexOf(s, "\n") = 0 THEN s ELSE SubSeq(s, 1, IndexOf(s, "\n") - 1)

\* the character class of the token split: [\s<backtick>.,;:!?()\[\]{}\"']
TokenSeparators ==
    {" ", "\n", "\t", Backtick, ".", ",", ";", ":", "!", "?",
     "(", ")", "[", "]", "{", "}", "\"", "'"}

\* position of the first character at or after i that is (sep = TRUE) or is
\* not (sep = FALSE) a separator, or Len(s) + 1
NextToken(s, i, sep) ==
    IF \E j \in i..Len(s) : (s[j] \in TokenSeparators) = sep
    THEN CHOOSE j \in i..Len(s) :
            /\ (s[j] \in TokenSeparators) = sep
            /\ \A h \in i..(j - 1) : (s[h] \in TokenSeparators) # sep
    ELSE Len(s) + 1

\* re.split(r"[...]+", s) from position i on: the pieces between maximal runs
\* of separators, the empty pieces at either end included
RECURSIVE SplitTokens(_, _)
SplitTokens(s, i) ==
    LET j == NextToken(s, i, TRUE)
    IN  IF j > Len(s) THEN << SubSeq(s, i, Len(s)) >>
        ELSE << SubSeq(s, i, j - 1) >> \o SplitTokens(s, NextToken(s, j, FALSE))

\* a placeholder test that wants the brackets around the whole reference
_is_placeholder_enclosing(ref) ==
    LET ref_lower == LowerStr(Strip(ref))
    IN  StartsWith(ref_lower, <<"[">>) /\ ref_lower[Len(ref_lower)] = "]"

_is_placeholder(ref) ==
    LET ref_lower == LowerStr(Strip(ref))
    IN  Contains(ref_lower, <<"[">>) /\ Contains(ref_lower, <<"]">>)

\* a length limit that lets an 81-character reference through
LongReferenceLimitOffByOne == 80 + 1

\* len(ref_raw) > 80
LongReferenceLimit == 80
\* len(ref) <= 5
ShortAnswerLimit == 5

\* the verdicts: True, False, None; KeyError when _normalize_numbers raises
score_task(pred, reference_answer) ==
    LET ref_raw == Strip(reference_answer)
    IN  IF _is_placeholder(ref_raw) THEN "None"
        ELSE IF Len(ref_raw) > LongReferenceLimit THEN "None"
        ELSE LET ref_norm   == _normalize(ref_raw)
                 pred_norm  == _normalize(pred)
                 ref        == _normalize_numbers(ref_norm)
                 pred_full  == _normalize_numbers(pred_norm)
                 first_line == FirstLine(pred_full)
             IN  IF NormalizeNumbersRaises(ref_norm) THEN "KeyError"
                 ELSE IF NormalizeNumbersRaises(pred_norm) THEN "KeyError"
                 ELSE IF pred_full = ref THEN "True"
                 ELSE IF Contains(first_line, ref) THEN "True"
                 ELSE IF _numeric_match(first_line, ref) THEN "True"
                 ELSE IF Len(ref) <= ShortAnswerLimit
                         /\ ref \in Range(SplitTokens(first_line, 1)) THEN "True"
                 ELSE "False"

(***************************************************************************)
(* label_hallucination_task                                                *)
(***************************************************************************)
\* the atom \d of a pattern
AnyDigit == "\\d"

\* the alternatives of _REFUSAL_PATTERNS, one row per pattern, with every
\* optional apostrophe and the inner group of "cannot (find|verify|confirm)"
\* written out
_REFUSAL_PATTERNS ==
    {
      <<"i"," ","d","o","n","'","t"," ","k","n","o","w">>,
      <<"i"," ","d","o","n","t"," ","k","n","o","w">>,
      <<"i"," ","c","a","n","n","o","t">>,
      <<"i"," ","c","a","n","'","t">>,
      <<"i"," ","c","a","n","t">>,
      <<"n","o","t"," ","s","u","r","e">>,
      <<"d","i","d"," ","n","o","t">>,
      <<"d","o","e","s"," ","n","o","t">>,
      <<"d","o","e","s","n","'","t">>,
      <<"d","o","e","s","n","t">>,
      <<"d","o"," ","n","o","t">>,
      <<"d","o","n","'","t">>,
      <<"d","o","n","t">>,
      <<"f","i","c","t","i","o","n","a","l">>,
      <<"f","i","c","t","i","t","i","o","u","s">>,
      <<"n","o","t"," ","r","e","a","l">>,
      <<"d","o","e","s","n","'","t"," ","e","x","i","s","t">>,
      <<"d","o","e","s","n","t"," ","e","x","i","s","t">>,
      <<"d","o","e","s"," ","n","o","t"," ","e","x","i","s","t">>,
      <<"f","a","l","s","e"," ","p","r","e","m","i","s","e">>,
      <<"i","m","p","o","s","s","i","b","l","e">>,
      <<"n","o"," ","s","u","c","h">>,
      <<"n","e","v","e","r"," ","h","a","p","p","e","n","e","d">>,
      <<"n","o"," ","e","v","i","d","e","n","c","e">>,
      <<"c","a","n","n","o","t"," ","f","i","n","d">>,
      <<"c","a","n","n","o","t"," ","v","e","r","i","f","y">>,
      <<"c","a","n","n","o","t"," ","c","o","n","f","i","r","m">>,
      <<"d","i","e","d"," ","i","n"," ",AnyDigit,AnyDigit,AnyDigit,AnyDigit>>,
      <<"w","a","s"," ","i","n","v","e","n","t","e","d">>,
      <<"n","o","t"," ","p","o","s","s","i","b","l","e">>
    }

\* the same without re.IGNORECASE
AtomMatchesCaseSensitive(a, c) ==
    IF a = AnyDigit THEN c \in Digits ELSE a = c

\* one pattern atom against one character under re.IGNORECASE
AtomMatches(a, c) ==
    IF a = AnyDigit THEN c \in Digits
    ELSE IF a \in LowerSet THEN MatchesIgnoreCase(a, c)
    ELSE a = c

\* \b(p)\b matches s at position i
PhraseMatchesAt(s, i, p) ==
    /\ i + Len(p) - 1 <= Len(s)
    /\ WordBoundary(s, i)
    /\ \A j \in 1..Len(p) : AtomMatches(p[j], s[i + j - 1])
    /\ WordBoundary(s, i + Len(p))

\* _REFUSAL_RE.search(s) finds a match
RefusalFound(s) ==
    \E i \in 1..Len(s) :
        /\ WordBoundary(s, i)
        /\ \E p \in _REFUSAL_PATTERNS : PhraseMatchesAt(s, i, p)

\* [A-Z][a-z]+ matches s[i..e] with e the end of the run of lower-case letters
CapitalizedWordAt(s, i, e) ==
    /\ i < e /\ e <= Len(s)
    /\ s[i] \in UpperSet
    /\ \A j \in (i + 1)..e : s[j] \in LowerSet

\* _PROPER_NOUN_RE.search(s) finds a match: a capitalized word, whitespace,
\* and the start of another capitalized word
ProperNounFound(s) ==
    \E i \in 1..Len(s) :
        /\ s[i] \in UpperSet
        /\ \E e \in (i + 1)..Len(s) :
              /\ CapitalizedWordAt(s, i, e)
              /\ \E j \in (e + 2)..Len(s) :
                    /\ \A h \in (e + 1)..(j - 1) : IsSpace(s[h])
                    /\ CapitalizedWordAt(s, j, j + 1)

\* len(s.split()): the number of maximal runs of non-whitespace
WordCount(s) ==
    Cardinality({ i \in 1..Len(s) : ~IsSpace(s[i]) /\ (i = 1 \/ IsSpace(s[i - 1])) })

\* a limit of two characters
MinLabelLengthOffByOne == 3 - 1
\* len(pred_stripped) < 3
MinLabelLength == 3
\* a limit of nine words
ShortPhraseWordsOffByOne == 8 + 1
\* len(pred_stripped.split()) <= 8
ShortPhraseWords == 8

\* a labeler that treats an echo of the task's reference as no answer
label_hallucination_task_echo_aware(pred, task) ==
    LET pred_stripped == Strip(pred)
    IN  IF Len(pred_stripped) < MinLabelLength THEN "unclear"
        ELSE IF pred_stripped = Strip(task.reference_answer) THEN "unclear"
        ELSE IF RefusalFound(pred_stripped) THEN "refusal_or_correction"
        ELSE IF ProperNounFound(pred_stripped) THEN "hallucination_candidate"
        ELSE IF WordCount(pred_stripped) <= ShortPhraseWords
                /\ pred_stripped[Len(pred_stripped)] # "?"
             THEN "hallucination_candidate"
        ELSE "unclear"

\* the value of the key "hallucination_label" of the dict returned; a task is
\* its reference_answer and its metadata type, and the function reads neither
label_hallucination_task(pred, task) ==
    LET pred_stripped == Strip(pred)
    IN  IF Len(pred_stripped) < MinLabelLength THEN "unclear"
        ELSE IF RefusalFound(pred_stripped) THEN "refusal_or_correction"
        ELSE IF ProperNounFound(pred_stripped) THEN "hallucination_candidate"
        ELSE IF WordCount(pred_stripped) <= ShortPhraseWords
                /\ pred_stripped[Len(pred_stripped)] # "?"
             THEN "hallucination_candidate"
        ELSE "unclear"

\* the legacy alias of score_task
exact_match_score(pred, reference_answer) == score_task(pred, reference_answer)

(***************************************************************************)
(* Bounded input strings: concatenations of at most n fragments            *)
(***************************************************************************)
RECURSIVE Concats(_, _)
Concats(F, n) ==
    IF n = 0 THEN { <<>> }
    ELSE LET S == Concats(F, n - 1) IN S \cup { f \o s : f \in F, s \in S }

\* s followed by n times the character c
Padded(s, c, n) == s \o [i \in 1..n |-> c]

NoHarness == text = <<>> /\ prev = <<>> /\ calls = 0
NoCall    == prediction = <<>> /\ reference = <<>> /\ verdict = "unset" /\ matched = "unset"
NoFile    == file = <<>> /\ corrected = 0 /\ written = FALSE
NoLoop ==
    /\ offline = FALSE /\ task_type = "" /\ h_label = "None" /\ results = <<>>
    /\ processed = 0 /\ correct = 0 /\ graded = 0 /\ skipped = 0
    /\ hallucinated = 0 /\ refused = 0 /\ unclear_h = 0

(***************************************************************************)
(* Spec: the evaluation loop of run_benchmark.main                         *)
(*                                                                         *)
(* EXAMPLE_TASKS is any list of at most MaxTasks tasks; a task is its      *)
(* reference answer and its metadata type.  generate_answer is the model   *)
(* under evaluation: any prediction of Generated.                          *)
(***************************************************************************)
MaxTasks == 2
TaskReferences ==
    { <<"d","e","f">>, <<"E","i","g","h","t">>, <<"s",DotlessI,"x">>,
      <<"[","x","]">>, <<>>, Padded(<<"T">>, "x", 81) }
TaskTypes == {"factual_qa", "hallucination_stress"}
Generated ==
    { <<"d","e","f">>, <<"8">>, <<>>,
      <<"I"," ","d","o","n","'","t"," ","k","n","o","w">>,
      <<"P","a","r","i","s"," ","F","r","a","n","c","e">>,
      <<"s",DotlessI,"x">> }

\* every verdict counted as graded
GradedVerdictsWithNone == {"True", "False", "None"}
\* the verdicts that add to graded: is_correct is not None
GradedVerdicts == {"True", "False"}

Init ==
    /\ pc = "loop"
    /\ offline \in BOOLEAN
    /\ task_type = "" /\ h_label = "None" /\ results = <<>>
    /\ processed = 0 /\ correct = 0 /\ graded = 0 /\ skipped = 0
    /\ hallucinated = 0 /\ refused = 0 /\ unclear_h = 0
    /\ NoHarness /\ NoCall
    /\ NoFile

\* one pass through the body of "for task in EXAMPLE_TASKS"; the KeyError of
\* score_task leaves main before anything is recorded
EvaluateTask ==
    /\ pc = "loop"
    /\ processed < MaxTasks
    /\ \E ref \in TaskReferences, type \in TaskTypes :
       \E gen \in IF offline THEN {ref} ELSE Generated :
         /\ prediction' = gen
         /\ reference' = ref
         /\ task_type' = type
         /\ verdict' = score_task(gen, ref)
         /\ IF verdict' = "KeyError"
            THEN /\ pc' = "KeyError"
                 /\ UNCHANGED <<h_label, results, processed, correct, graded,
                                skipped, hallucinated, refused, unclear_h>>
            ELSE /\ pc' = pc
                 /\ h_label' = IF type = "hallucination_stress"
                               THEN label_hallucination_task(gen,
                                        [reference_answer |-> ref, type |-> type])
                               ELSE "None"
                 /\ hallucinated' = hallucinated
                        + (IF h_label' = "hallucination_candidate" THEN 1 ELSE 0)
                 /\ refused' = refused
                        + (IF h_label' = "refusal_or_correction" THEN 1 ELSE 0)
                 /\ unclear_h' = unclear_h
                        + (IF type = "hallucination_stress"
                              /\ h_label' \notin {"hallucination_candidate",
                                                  "refusal_or_correction"}
                           THEN 1 ELSE 0)
                 /\ results' = Append(results,
                                   [is_correct |-> verdict', metadata |-> h_label'])
                 /\ processed' = processed + 1
                 /\ skipped' = skipped + (IF verdict' = "None" THEN 1 ELSE 0)
                 /\ correct' = correct + (IF verdict' = "True" THEN 1 ELSE 0)
                 /\ graded' = graded
                        + (IF verdict' \in GradedVerdicts THEN 1 ELSE 0)
    /\ UNCHANGED <<offline, matched, harnessVars>>
    /\ UNCHANGED fileVars

\* the list is exhausted: main goes on to the summary
FinishRun ==
    /\ pc = "loop"
    /\ pc' = "summary"
    /\ UNCHANGED <<harnessVars, callVars, loopVars>>
    /\ UNCHANGED fileVars

Next == EvaluateTask \/ FinishRun
Spec == Init /\ [][Next]_vars

\* C1: a reference of 3 to 80 characters without a bracket, echoed as the
\* prediction, scores Correct; so in offline mode, where the prediction is the
\* reference, every task that is not Ungradable is counted as correct.
EchoScoresCorrect ==
    /\ ( /\ verdict # "unset" /\ prediction = reference
         /\ Len(reference) \in 3..80
         /\ \A i \in 1..Len(reference) : reference[i] \notin {"[", "]"} )
       => verdict = "True"
    /\ (offline /\ verdict # "unset") =>
          /\ verdict # "None" => verdict = "True"
          /\ correct = graded

\* the same for the runs in which score_task returns
EchoScoresCorrectOnReturn ==
    verdict \in {"unset", "True", "False", "None"} => EchoScoresCorrect

(***************************************************************************)
(* SpecNormalize: _normalize applied repeatedly to one input               *)
(***************************************************************************)
MaxNormFrags == 4
NormFrags ==
    { <<"t","h","e"," ">>, <<"A","n"," ">>, <<"c","a","t">>, <<"x">>,
      <<".">>, <<Backtick>>, <<" ">>, <<"\n">>, <<SuperscriptTwo>> }
NormInputs == Concats(NormFrags, MaxNormFrags)

InitNormalize ==
    /\ pc = "normalize"
    /\ text \in NormInputs
    /\ prev = <<>>
    /\ calls = 0
    /\ NoCall /\ NoLoop
    /\ NoFile

ApplyNormalize ==
    /\ pc = "normalize"
    /\ calls < 2
    /\ prev' = text
    /\ text' = _normalize(text)
    /\ calls' = calls + 1
    /\ UNCHANGED <<pc, callVars, loopVars>>
    /\ UNCHANGED fileVars

NextNormalize == ApplyNormalize
SpecNormalize == InitNormalize /\ [][NextNormalize]_vars

\* C4: normalising an already normalised string changes nothing:
\* _normalize(_normalize(x)) = _normalize(x) for every input x.
NormalizeIdempotent == (pc = "normalize" /\ calls = 2) => text = prev


(***************************************************************************)
(* SpecNumbers: _normalize_numbers applied to one input                    *)
(***************************************************************************)
MaxNumberFrags == 3
NumberFrags ==
    { <<"o","n","e">>, <<"h","u","n","d","r","e","d">>, <<"E","i","g","h","t">>,
      <<"s",DotlessI,"x">>, <<"s">>, <<" ">>, <<"-">>, <<"2">> }
NumberInputs == Concats(NumberFrags, MaxNumberFrags)

InitNumbers ==
    /\ pc = "normalize_numbers"
    /\ text \in NumberInputs
    /\ prev = <<>>
    /\ calls = 0
    /\ NoCall /\ NoLoop
    /\ NoFile

\* text = _normalize_numbers(text); a KeyError ends the call without a value
ApplyNormalizeNumbers ==
    /\ pc = "normalize_numbers"
    /\ calls < 1
    /\ prev' = text
    /\ calls' = calls + 1
    /\ IF NormalizeNumbersRaises(text)
       THEN pc' = "KeyError" /\ UNCHANGED text
       ELSE pc' = pc /\ text' = _normalize_numbers(text)
    /\ UNCHANGED <<callVars, loopVars>>
    /\ UNCHANGED fileVars

NextNumbers == ApplyNormalizeNumbers
SpecNumbers == InitNumbers /\ [][NextNumbers]_vars

IsVocabularyWord(w) == \E k \in 1..Len(_NUMBER_WORDS) : _NUMBER_WORDS[k][1] = w
DigitsOf(w) == _NUMBER_WORDS[CHOOSE k \in 1..Len(_NUMBER_WORDS) : _NUMBER_WORDS[k][1] = w][2]

\* position of the first character at or after i that is (word = TRUE) or is
\* not (word = FALSE) a word character, or Len(s) + 1
NextWordEdge(s, i, word) ==
    IF \E j \in i..Len(s) : IsWordChar(s[j]) = word
    THEN CHOOSE j \in i..Len(s) :
            /\ IsWordChar(s[j]) = word
            /\ \A h \in i..(j - 1) : IsWordChar(s[h]) # word
    ELSE Len(s) + 1

\* s from position i on, with every whole word that is a vocabulary word in
\* some mix of cases replaced by its digits and the rest unchanged
RECURSIVE WholeWordsReplaced(_, _)
WholeWordsReplaced(s, i) ==
    LET j == NextWordEdge(s, i, TRUE)
        e == NextWordEdge(s, j, FALSE)
        w == SubSeq(s, j, e - 1)
    IN  IF j > Len(s) THEN SubSeq(s, i, Len(s))
        ELSE SubSeq(s, i, j - 1)
                 \o (IF IsVocabularyWord(LowerStr(w)) THEN DigitsOf(LowerStr(w)) ELSE w)
                 \o WholeWordsReplaced(s, e)

\* C10: _normalize_numbers returns its argument with each whole-word
\* vocabulary word, in any case, replaced by its digit string, word by word,
\* and everything else unchanged.
NumberWordsReplaced ==
    calls = 1 => (pc # "KeyError" /\ text = WholeWordsReplaced(prev, 1))

\* whenever _normalize_numbers returns, it returns that string
NumberWordsReplacedOnReturn ==
    (calls = 1 /\ pc # "KeyError") => text = WholeWordsReplaced(prev, 1)

(***************************************************************************)
(* SpecNumeric: _numeric_match and score_task on numeric strings           *)
(***************************************************************************)
MaxNumericFrags == 3
NumericFrags ==
    { <<"3",".">>, <<"1">>, <<"4">>, <<"5">>, <<"3">>, <<"2">>, <<",">> }
NumericRefs ==
    { <<"3",".","1","4">>, <<"3",".","1","4","1","6">>, <<".","0","1">>, <<"0">>,
      <<"1",",","0","2","4">>, <<"1","0","2","4">>, <<"5">>, <<"n","a","n">>,
      <<"p","i">>, <<>> }
NumericPreds == Concats(NumericFrags, MaxNumericFrags) \cup NumericRefs

InitNumeric ==
    /\ pc = "call"
    /\ prediction \in NumericPreds
    /\ reference \in NumericRefs
    /\ verdict = "unset"
    /\ matched = "unset"
    /\ NoHarness /\ NoLoop
    /\ NoFile

\* matched = _numeric_match(pred, ref)
ApplyNumericMatch ==
    /\ pc = "call"
    /\ matched = "unset"
    /\ matched' = IF _numeric_match(prediction, reference) THEN "True" ELSE "False"
    /\ UNCHANGED <<pc, prediction, reference, verdict, harnessVars, loopVars>>
    /\ UNCHANGED fileVars

\* verdict = score_task(pred, task); a KeyError ends the call without a value
ScoreTask ==
    /\ pc = "call"
    /\ verdict = "unset"
    /\ verdict' = score_task(prediction, reference)
    /\ pc' = IF verdict' = "KeyError" THEN "KeyError" ELSE pc
    /\ UNCHANGED <<prediction, reference, matched, harnessVars, loopVars>>
    /\ UNCHANGED fileVars

NextNumeric == ApplyNumericMatch \/ ScoreTask
SpecNumeric == InitNumeric /\ [][NextNumeric]_vars

(***************************************************************************)
(* SpecScore: score_task on one prediction and one reference               *)
(***************************************************************************)
MaxRefFrags == 3
MaxPredFrags == 3
RefFrags  == { <<"8">>, <<"x">>, <<"[">>, <<"]">> }
PredFrags == { <<"8">>, <<"1">>, <<" ">>, <<"\n">>, <<"s",DotlessI,"x">> }
\* references around the length limit of 80
LongRefs ==
    { Padded(r, "x", n) : r \in Concats(RefFrags, 1) \cup { <<" ">> }, n \in 78..81 }
\* references made of punctuation, backticks and whitespace only
BlankRefs ==
    { <<"?">>, <<Backtick>>, <<" ", " ">>, <<"?", Backtick, " ">>,
      Padded(<<Backtick>>, "?", 80), Padded(<<Backtick>>, "?", 81) }
ScoreRefs  == Concats(RefFrags, MaxRefFrags) \cup LongRefs \cup BlankRefs
ScorePreds == Concats(PredFrags, MaxPredFrags) \cup { <<"[","x","]">> }

InitScore ==
    /\ pc = "call"
    /\ prediction \in ScorePreds
    /\ reference \in ScoreRefs
    /\ verdict = "unset"
    /\ matched = "unset"
    /\ NoHarness /\ NoLoop
    /\ NoFile

NextScore == ScoreTask
SpecScore == InitScore /\ [][NextScore]_vars

(***************************************************************************)
(* Properties of score_task and _numeric_match                             *)
(***************************************************************************)
Returned == verdict \in {"True", "False", "None"}
Trimmed  == Strip(reference)
HasBothBrackets(r) == (\E i \in 1..Len(r) : r[i] = "[") /\ (\E i \in 1..Len(r) : r[i] = "]")
\* neither a placeholder nor a long reference
Gradable == ~HasBothBrackets(Trimmed) /\ Len(Trimmed) <= 80

\* the strings the stages compare
NormRef       == _normalize_numbers(_normalize(Trimmed))
NormPred      == _normalize_numbers(_normalize(prediction))
NormFirstLine == FirstLine(NormPred)
\* a line as a number, commas removed
AsNumber(s) == ParseFloat(RemoveChar(s, ","))

ExactStage(p)     == p = NormRef
SubstringStage(l) == Contains(l, NormRef)
NumericStage(l) ==
    /\ AsNumber(l).kind # "ValueError" /\ AsNumber(NormRef).kind # "ValueError"
    /\ DifferenceBelowEpsilon(AsNumber(l), AsNumber(NormRef))
WholeToken(l)     == NormRef \in Range(SplitTokens(l, 1))
TokenStage(l)     == Len(NormRef) <= 5 /\ WholeToken(l)

\* C2: a reference whose trimmed text holds both "[" and "]" is Ungradable
\* whatever the prediction is, a prediction equal to the reference included.
PlaceholderUngradable ==
    (verdict # "unset" /\ HasBothBrackets(Trimmed)) => verdict = "None"

PlaceholderEchoed ==
    /\ verdict = "None" /\ HasBothBrackets(Trimmed) /\ Len(Trimmed) <= 80
    /\ prediction = reference

\* C3: a reference longer than 80 characters after trimming is Ungradable
\* whatever the prediction is; one of exactly 80 characters that does not hold
\* both brackets is not.
LongReferenceUngradable ==
    verdict # "unset" =>
        /\ Len(Trimmed) > 80 => verdict = "None"
        /\ (Len(Trimmed) = 80 /\ ~HasBothBrackets(Trimmed)) => verdict # "None"

LongReferenceSkipped ==
    /\ verdict = "None" /\ Len(Trimmed) = 81 /\ ~HasBothBrackets(Trimmed)
    /\ prediction # <<>>

\* a reference of 80 characters after trimming, longer before, is graded
TrimmedToLimitGraded ==
    Len(reference) > 80 /\ Len(Trimmed) = 80 /\ verdict \in {"True", "False"}

\* C5: for a gradable reference score_task returns Correct iff one of the four
\* stages matches the normalized strings (exact, reference inside the first
\* line, numeric within tolerance, whole token for a reference of at most 5
\* characters), Incorrect otherwise, and never Ungradable.
CascadeVerdict ==
    (verdict # "unset" /\ Gradable) =>
        verdict = IF \/ ExactStage(NormPred) \/ SubstringStage(NormFirstLine)
                     \/ NumericStage(NormFirstLine) \/ TokenStage(NormFirstLine)
                  THEN "True" ELSE "False"

\* the same for the calls that return
CascadeVerdictOnReturn == Returned => CascadeVerdict

\* the first line of the prediction as the model wrote it, normalized
WrittenFirstLine == _normalize_numbers(_normalize(FirstLine(Strip(prediction))))

\* C6: when the reference occurs in the prediction only after a newline and
\* no stage matches the first line, score_task returns Incorrect.
SubstringOnlyInFirstLine ==
    ( /\ Returned /\ Gradable
      /\ Contains(Strip(prediction), <<"\n">>)
      /\ Contains(NormPred, NormRef)
      /\ ~ExactStage(NormPred) /\ ~SubstringStage(WrittenFirstLine)
      /\ ~NumericStage(WrittenFirstLine) /\ ~TokenStage(WrittenFirstLine) )
    => verdict = "False"

\* C7: a reference of at most 5 normalized characters scores Correct only by
\* equality with the whole prediction, by a numeric match or by equality with
\* a whole token of the first line, never as a piece of a longer token.
ShortReferenceNeedsWholeToken ==
    (Returned /\ Gradable /\ Len(NormRef) \in 1..5 /\ verdict = "True") =>
        \/ ExactStage(NormPred) \/ NumericStage(NormFirstLine)
        \/ WholeToken(NormFirstLine)

\* two finite numbers exactly 1/100 apart as decimals
ExactlyEpsilonApart(a, b) ==
    /\ a.kind = "finite" /\ b.kind = "finite"
    /\ LET S == Max(Max(Len(a.fd), Len(b.fd)), 2)
       IN  Abs(DecimalDifference(a, b, S)) = Pow(10, S) \div 100

\* two finite numbers more than 1/100 apart as decimals
BeyondEpsilon(a, b) ==
    /\ a.kind = "finite" /\ b.kind = "finite"
    /\ LET S == Max(Max(Len(a.fd), Len(b.fd)), 2)
       IN  Abs(DecimalDifference(a, b, S)) > Pow(10, S) \div 100

MaxWordFrags == 3
WordFrags ==
    { <<"E","i","g","h","t">>, <<"e","i","g","h","t">>, <<"8">>,
      <<"n","i","n","e">>, <<"9">>, <<"e","i","g","h","t","e","e","n">>,
      <<" ">>, <<"p","l","a","n","e","t","s"," ">>, <<"s",DotlessI,"x">> }
WordPreds == Concats(WordFrags, MaxWordFrags)
WordRefs ==
    { <<"8">>, <<"e","i","g","h","t">>, <<"E","I","G","H","T">>,
      <<"9">>, <<"N","i","n","e">> }

InitWords ==
    /\ pc = "call"
    /\ prediction \in WordPreds
    /\ reference \in WordRefs
    /\ verdict = "unset"
    /\ matched = "unset"
    /\ NoHarness /\ NoLoop
    /\ NoFile

NextWords == ScoreTask
SpecWords == InitWords /\ [][NextWords]_vars

\* the whitespace-separated words of s
WordsOf(s) ==
    { SubSeq(s, i, j) : <<i, j>> \in
        { ij \in (1..Len(s)) \X (1..Len(s)) :
            /\ ij[1] <= ij[2]
            /\ \A h \in ij[1]..ij[2] : ~IsSpace(s[h])
            /\ (ij[1] = 1 \/ IsSpace(s[ij[1] - 1]))
            /\ (ij[2] = Len(s) \/ IsSpace(s[ij[2] + 1])) } }
IsDigits(w) == Len(w) > 0 /\ \A i \in 1..Len(w) : w[i] \in Digits
\* the numbers a text mentions, as digit strings: its words that are digit
\* strings, and the digits of its words that are vocabulary words in any case
NumbersMentioned(s) ==
    { w \in WordsOf(s) : IsDigits(w) }
        \cup { DigitsOf(LowerStr(w)) : w \in { v \in WordsOf(s) : IsVocabularyWord(LowerStr(v)) } }
\* the answer of the reference in hand is one number
ReferenceNumber == CHOOSE n \in NumbersMentioned(reference) : TRUE

\* C11: a number word and its digit string are interchangeable in any case and
\* on either side: a prediction that mentions the number of the reference, as
\* a word or as digits, scores Correct, and a prediction that mentions only
\* other numbers scores Incorrect.
NumberWordsInterchangeable ==
    (pc # "call" \/ verdict # "unset") =>
        /\ ReferenceNumber \in NumbersMentioned(prediction) => verdict = "True"
        /\ ( /\ NumbersMentioned(prediction) # {}
             /\ ReferenceNumber \notin NumbersMentioned(prediction) )
           => verdict = "False"

\* what remains of it: whenever score_task returns and the prediction
\* mentions the number of the reference, the verdict is Correct
MentionedNumberCorrectOnReturn ==
    (Returned /\ ReferenceNumber \in NumbersMentioned(prediction)) => verdict = "True"

(***************************************************************************)
(* SpecLabel: label_hallucination_task applied to one prediction and task  *)
(***************************************************************************)
MaxLabelFrags == 3
LabelFrags ==
    { <<" ","I"," ","c","a","n","n","o","t">>,
      <<"P","a","r","i","s"," ">>, <<"F","r","a","n","c","e">>,
      <<"N","A","S","A"," ">>, <<"n","o">>, <<" ">>, <<"?">>,
      <<"a"," ","b"," ","c"," ","d"," ","e"," ","f"," ","g"," ","h"," ">> }
LabelPreds == Concats(LabelFrags, MaxLabelFrags)
LabelRefs == { <<"P","a","r","i","s"," ","F","r","a","n","c","e">>, <<"n","o">> }

InitLabel ==
    /\ pc = "call"
    /\ prediction \in LabelPreds
    /\ reference \in LabelRefs
    /\ task_type = "hallucination_stress"
    /\ h_label = "None"
    /\ verdict = "unset" /\ matched = "unset"
    /\ offline = FALSE /\ results = <<>>
    /\ processed = 0 /\ correct = 0 /\ graded = 0 /\ skipped = 0
    /\ hallucinated = 0 /\ refused = 0 /\ unclear_h = 0
    /\ NoHarness
    /\ NoFile

ApplyLabel ==
    /\ pc = "call"
    /\ h_label' = label_hallucination_task(prediction,
                      [reference_answer |-> reference, type |-> task_type])
    /\ pc' = "labelled"
    /\ UNCHANGED <<harnessVars, callVars, offline, task_type, results, processed,
                   correct, graded, skipped, hallucinated, refused, unclear_h>>
    /\ UNCHANGED fileVars

NextLabel == ApplyLabel
SpecLabel == InitLabel /\ [][NextLabel]_vars

Labelled == pc = "labelled"
TrimmedPred == Strip(prediction)

\* C12: a prediction whose trimmed length is below 3 is labelled unclear,
\* whatever else it contains.
ShortPredictionUnclear ==
    (Labelled /\ Len(TrimmedPred) < 3) => h_label = "unclear"
\* the prediction "no" has been labelled
ShortPredictionLabelled ==
    Labelled /\ prediction = <<"n","o">> /\ h_label = "unclear"

\* a digit stands for the pattern atom \d, any other character for itself
AsAtom(c) == IF c \in Digits THEN AnyDigit ELSE c
\* s, folded to lower case, contains one of the refusal phrases as whole words
SaysRefusal(s) ==
    LET folded == LowerStr(s)
    IN  \E i \in 1..Len(s) : \E p \in _REFUSAL_PATTERNS :
            /\ i + Len(p) - 1 <= Len(s)
            /\ WordBoundary(s, i)
            /\ \A j \in 1..Len(p) :
                   folded[i + j - 1] = p[j] \/ AsAtom(folded[i + j - 1]) = p[j]
            /\ WordBoundary(s, i + Len(p))

\* C13: a prediction of trimmed length 3 or more that matches a refusal
\* pattern in any case is labelled refusal_or_correction, also when it holds a
\* proper-noun phrase or is a short statement.
RefusalTakesPrecedence ==
    (Labelled /\ Len(TrimmedPred) >= 3 /\ SaysRefusal(TrimmedPred))
        => h_label = "refusal_or_correction"
\* a refusal that also names a proper noun in at most 8 words
RefusalWithProperNoun ==
    /\ Labelled
    /\ h_label = "refusal_or_correction"
    /\ ProperNounFound(TrimmedPred)
    /\ WordCount(TrimmedPred) <= 8

\* word starts: positions of s that begin a whitespace-separated word
WordStart(s, i) == ~IsSpace(s[i]) /\ (i = 1 \/ IsSpace(s[i - 1]))
\* two words in a row that both begin with a capital letter
ConsecutiveCapitalizedWords(s) ==
    \E i \in 1..Len(s) : \E j \in (i + 1)..Len(s) :
        /\ WordStart(s, i) /\ s[i] \in UpperSet
        /\ WordStart(s, j) /\ s[j] \in UpperSet
        /\ \A h \in (i + 1)..(j - 1) : ~WordStart(s, h)
ShortStatement(s) == WordCount(s) <= 8 /\ s[Len(s)] # "?"
Unrefused == Labelled /\ Len(TrimmedPred) >= 3 /\ ~RefusalFound(TrimmedPred)

LabelTasks == [reference_answer : LabelRefs, type : TaskTypes]
Labels == {"refusal_or_correction", "hallucination_candidate", "unclear"}

\* C15: the label is one of the three labels and is the same for every task
\* the prediction is labelled for.
LabelIgnoresTask ==
    Labelled =>
        /\ h_label \in Labels
        /\ \A t \in LabelTasks : label_hallucination_task(prediction, t) = h_label
\* an echo of the task's reference has been labelled
EchoLabelled ==
    /\ Labelled
    /\ prediction = reference
    /\ Len(TrimmedPred) >= 3
    /\ h_label = "hallucination_candidate"

\* C16: score_task never raises: every call returns exactly one of Correct,
\* Incorrect and Ungradable, whatever the prediction and the reference.
ScoreTaskTotal ==
    /\ pc # "KeyError"
    /\ verdict # "unset" => verdict \in {"True", "False", "None"}

\* the numeric stage by itself never raises: _numeric_match returns a bool
NumericMatchTotal == matched \in {"unset", "True", "False"}

(***************************************************************************)
(* SpecOffline: run_example_offline.main                                   *)
(*                                                                         *)
(* The task list is any list of at most MaxOfflineTasks tasks; a task is   *)
(* its id and its reference answer.  calls counts the tasks iterated over. *)
(***************************************************************************)
MaxOfflineTasks == 3
TaskIds == {"events_001", "science_001"}
OfflineTasks == [id : TaskIds, reference_answer : TaskReferences]

InitOffline ==
    /\ pc = "offline_loop"
    /\ text = <<>> /\ prev = <<>> /\ calls = 0
    /\ NoCall /\ NoLoop
    /\ NoFile

\* one pass through the body of "for task in EXAMPLE_TASKS"
OfflineTask ==
    /\ pc = "offline_loop"
    /\ calls < MaxOfflineTasks
    /\ calls' = calls + 1
    /\ \E task \in OfflineTasks :
         IF task.id = "events_001"
         THEN UNCHANGED <<pc, prediction, reference, verdict, results, processed>>
         ELSE /\ prediction' = task.reference_answer
              /\ reference' = task.reference_answer
              /\ verdict' = exact_match_score(task.reference_answer, task.reference_answer)
              /\ IF verdict' = "KeyError"
                 THEN pc' = "KeyError" /\ UNCHANGED <<results, processed>>
                 ELSE /\ pc' = pc
                      /\ results' = Append(results,
                                        [is_correct |-> verdict', metadata |-> "None"])
                      /\ processed' = Len(results')
    /\ UNCHANGED <<text, prev, matched, offline, task_type, h_label, correct,
                   graded, skipped, hallucinated, refused, unclear_h>>
    /\ UNCHANGED fileVars

\* the list is exhausted: the run is saved and the accuracy printed as
\* correct / len(run.results)
OfflineSummary ==
    /\ pc = "offline_loop"
    /\ pc' = "offline_done"
    /\ correct' = Cardinality({ i \in 1..Len(results) : results[i].is_correct = "True" })
    /\ UNCHANGED <<harnessVars, callVars, offline, task_type, h_label, results,
                   processed, graded, skipped, hallucinated, refused, unclear_h>>
    /\ UNCHANGED fileVars

NextOffline == OfflineTask \/ OfflineSummary
SpecOffline == InitOffline /\ [][NextOffline]_vars

\* C17: in the accuracy printed by run_example_offline, an Ungradable result
\* is counted neither as correct nor in the denominator.
AccuracyExcludesUngradable ==
    pc = "offline_done" =>
        /\ correct = Cardinality({ i \in 1..Len(results) : results[i].is_correct = "True" })
        /\ processed = Cardinality({ i \in 1..Len(results) : results[i].is_correct # "None" })

\* the number of results with the given is_correct values, and of results of
\* hallucination stress tasks (the results that carry a label as metadata)
Count(vs) == Cardinality({ i \in 1..Len(results) : results[i].is_correct \in vs })
StressResults == Cardinality({ i \in 1..Len(results) : results[i].metadata # "None" })

\* C18: after every task of the run_benchmark loop, graded + skipped is the
\* number of results, correct is at most graded, an Ungradable verdict has
\* added to skipped only, and the three label tallies add up to the number of
\* hallucination stress tasks processed.
LoopTallies ==
    /\ processed = Len(results)
    /\ graded + skipped = Len(results)
    /\ correct <= graded
    /\ skipped = Count({"None"})
    /\ graded = Count({"True", "False"})
    /\ correct = Count({"True"})
    /\ hallucinated + refused + unclear_h = StressResults
    /\ (pc = "loop" /\ processed > 0) =>
          (results[processed].metadata # "None" <=> task_type = "hallucination_stress")
\* two tasks processed: one Ungradable, one labelled
SkippedAndLabelled ==
    /\ pc = "loop"
    /\ processed = 2
    /\ skipped = 1
    /\ hallucinated + refused + unclear_h = 1

\* C19: the short-answer token stage never decides: whenever the reference is
\* a token of the first line it is a substring of the first line, so the
\* verdict of a gradable reference is that of the first three stages alone.
TokenStageRedundant ==
    (Returned /\ Gradable) =>
        /\ TokenStage(NormFirstLine) => SubstringStage(NormFirstLine)
        /\ verdict = IF \/ ExactStage(NormPred)
                        \/ SubstringStage(NormFirstLine)
                        \/ NumericStage(NormFirstLine)
                     THEN "True" ELSE "False"
\* the reference is a token of a longer first line
TokenMatched ==
    /\ Returned /\ Gradable
    /\ ~ExactStage(NormPred)
    /\ TokenStage(NormFirstLine)
    /\ verdict = "True"

\* C20: when the reference normalizes to the empty string, score_task returns
\* Correct for every prediction.
BlankReferenceAlwaysCorrect ==
    (verdict # "unset" /\ _normalize(Trimmed) = <<>>) => verdict = "True"

\* what remains of it: a blank reference of at most 80 characters is never
\* scored Incorrect or Ungradable when score_task returns
BlankReferenceCorrectOnReturn ==
    (Returned /\ _normalize(Trimmed) = <<>> /\ Len(Trimmed) <= 80) => verdict = "True"

(***************************************************************************)
(* SpecRecompute: recompute_scores.recompute run repeatedly on one file    *)
(*                                                                         *)
(* A result file is its list of results (task_id, model_response,          *)
(* is_correct) and its optional summary (no element or one).  calls counts *)
(* the runs, prev is the file as it was before the last run.               *)
(***************************************************************************)
MaxResults == 2
MaxRuns == 2

\* the tasks of EXAMPLE_TASKS the stored results refer to, by id
KnownIds == {"science_001", "events_001"}
TASKS_BY_ID ==
    [ id \in KnownIds |->
        IF id = "science_001" THEN <<"H","2","O">>
        ELSE <<"[","T","o"," ","b","e"," ","f","i","l","l","e","d"," ","b","a","s",
             "e","d"," ","o","n"," ","a","c","t","u","a","l"," ","2",
             "0","2","6"," ","e","v","e","n","t","]">> ]
StoredIds == KnownIds \cup {"retired_001"}
StoredResponses == { <<"H","2","O">>, <<"x">>, <<"s",DotlessI,"x">> }
StoredResults ==
    [task_id : StoredIds, model_response : StoredResponses,
     is_correct : {"True", "False", "None"}]
ResultLists(n) ==
    UNION { [1..k -> StoredResults] : k \in 0..n }
StoredSummaries == { <<>>, << [correct |-> 0, auto_graded |-> 0] >> }

InitRecompute ==
    /\ pc = "recompute"
    /\ file \in [results : ResultLists(MaxResults), summary : StoredSummaries]
    /\ corrected = 0 /\ written = FALSE
    /\ text = <<>> /\ prev = <<>> /\ calls = 0
    /\ NoCall /\ NoLoop

\* TASKS_BY_ID.get(r["task_id"]) is a task
Known(r) == r.task_id \in KnownIds
\* score_task(r["model_response"], task)
new_score(r) == score_task(r.model_response, TASKS_BY_ID[r.task_id])

\* the loop over data["results"]: every result of a known task gets the
\* score of its stored response, the others are skipped
Rescored(rs) ==
    [ i \in 1..Len(rs) |->
        IF Known(rs[i]) THEN [rs[i] EXCEPT !.is_correct = new_score(rs[i])]
        ELSE rs[i] ]

\* one call of recompute(path); a KeyError of score_task leaves the function
\* before the file is written
Recompute ==
    /\ pc \in {"recompute", "KeyError"}
    /\ calls < MaxRuns
    /\ calls' = calls + 1
    /\ prev' = file
    /\ \E data \in { Rescored(file.results) } :
         \E known \in { { i \in 1..Len(data) : Known(data[i]) } } :
         \E correct_count \in { Cardinality({ i \in known : data[i].is_correct = "True" }) } :
         \E graded_count \in { Cardinality({ i \in known : data[i].is_correct # "None" }) } :
           IF \E i \in known : data[i].is_correct = "KeyError"
           THEN /\ pc' = "KeyError"
                /\ written' = FALSE
                /\ UNCHANGED <<file, corrected, correct, graded>>
           ELSE /\ pc' = "recompute"
                /\ corrected' = Cardinality({ i \in known :
                                    data[i].is_correct # file.results[i].is_correct })
                /\ correct' = correct_count
                /\ graded' = graded_count
                /\ written' = (corrected' > 0)
                /\ file' = IF corrected' > 0
                           THEN [results |-> data,
                                 summary |-> IF file.summary = <<>> THEN <<>>
                                             ELSE << [correct |-> correct_count,
                                                      auto_graded |-> graded_count] >>]
                           ELSE file
    /\ UNCHANGED <<text, callVars, offline, task_type, h_label, results, processed,
                   skipped, hallucinated, refused, unclear_h>>

NextRecompute == Recompute
SpecRecompute == InitRecompute /\ [][NextRecompute]_vars

\* every stored score of a known task is the score of its stored response
FileRescored ==
    \A i \in 1..Len(file.results) :
        Known(file.results[i]) => file.results[i].is_correct = new_score(file.results[i])
\* the results of unknown tasks are as they were before the last run
UnknownKept ==
    \A i \in 1..Len(file.results) :
        ~Known(file.results[i]) => file.results[i] = prev.results[i]

\* C21: after one run of recompute the stored score of every known task is
\* the score of its response, so a second run corrects nothing and does not
\* write the file; the file is written only when a score was corrected, and
\* the results of unknown tasks keep their stored score.
RecomputeIdempotent ==
    calls >= 1 =>
        /\ pc # "KeyError"
        /\ FileRescored
        /\ UnknownKept
        /\ written <=> corrected > 0
        /\ calls >= 2 => (corrected = 0 /\ ~written)

\* the same for the runs in which recompute returns
RecomputeIdempotentOnReturn ==
    (calls >= 1 /\ pc # "KeyError") =>
        /\ FileRescored
        /\ UnknownKept
        /\ written <=> corrected > 0
        /\ calls >= 2 => (corrected = 0 /\ ~written)
====
